---- MODULE Spec2Model ----
(***************************************************************************)
(* MetaBase Python client (clients/python/metabase_client): the request    *)
(* pipeline MetaBaseClient._request / _handle_error, the table CRUD        *)
(* builders that feed it, and the session's life cycle.                    *)
(*                                                                         *)
(* Python values are modelled by tagged strings and records so that every  *)
(* field of the state has one shape: None is the string "None", a key a    *)
(* mapping does not hold is "ABSENT", JSON null is "null".                 *)
(***************************************************************************)
EXTENDS Integers, Sequences, FiniteSets, TLC

VARIABLES
    urlArg,     \* the url argument MetaBaseConfig was constructed with, as the caller wrote it
    config,     \* MetaBaseConfig: url, debug, timeout (read-only after construction)
    build,      \* which behaviour of the requests library is installed
    session,    \* requests.Session: the timeout attribute set on it, closed or not
    scope,      \* the caller's position: "outside" or "inside" a `with client:` block
    pc,         \* position of the current call: idle, sending, waiting, returned, raised
    op,         \* the public operation (or "_request") invoked last
    args,       \* the arguments the caller gave that operation
    call,       \* the arguments of the running _request: method, endpoint, data, params, kwargs
    wire,       \* the request session.request handed to the transport
    sent,       \* transport attempts made by the current call
    sentClosed, \* a request reached the transport after the session was released
    response,   \* what the transport produced for the current call
    result,     \* what the call gave its caller: an envelope or a raised exception
    trace,      \* lines the current call printed (debug output)
    timer,      \* the timeout the transport armed for the request in flight
    twin        \* the same call on a client that differs only in config.debug

vars == << urlArg, config, build, session, scope, pc, op, args, call, wire, sent,
           sentClosed, response, result, trace, timer, twin >>

(***************************************************************************)
(* Bounds of the model.                                                    *)
(***************************************************************************)
MaxWhere == 1      \* filters in one where mapping / keyword where-conditions

(***************************************************************************)
(* Program constants.                                                      *)
(***************************************************************************)
DefaultTimeout == 30000     \* MetaBaseConfig(timeout=30000), milliseconds
MsPerSecond == 1000         \* config.timeout / 1000
ErrorStatus == 400          \* response.status_code >= 400

(***************************************************************************)
(* Python values that travel as filter values. py is str(value), js is     *)
(* json.dumps(value), t is the type isinstance() sees.                     *)
(***************************************************************************)
StrV   == [t |-> "str",   py |-> "bob",         js |-> "\"bob\""]
DictV  == [t |-> "dict",  py |-> "{'gte': 18}", js |-> "{\"gte\": 18}"]
ListV  == [t |-> "list",  py |-> "[1, 2]",      js |-> "[1, 2]"]
TupleV == [t |-> "tuple", py |-> "(1, 2)",      js |-> "[1, 2]"]

FilterValues == {StrV, DictV, ListV, TupleV}

\* str(value)
PyStr(value) == value.py

\* json.dumps(value)
JsonDumps(value) == value.js

\* isinstance(value, (dict, list))
IsDictOrList(value) == value.t \in {"dict", "list"}

\* ','.join(seq)
RECURSIVE CommaJoin(_)
CommaJoin(seq) ==
    IF seq = << >> THEN ""
    ELSE IF Len(seq) = 1 THEN seq[1]
    ELSE seq[1] \o "," \o CommaJoin(Tail(seq))

\* params[key] = value on a dict
DictSet(params, key, value) ==
    [k \in DOMAIN params \cup {key} |-> IF k = key THEN value ELSE params[k]]

EmptyDict == [k \in {} |-> ""]

\* bool(x) of an optional int or string argument: None, 0 and "" are falsy
Truthy(x) == x \notin {"None", "0", ""}

(***************************************************************************)
(* types.py: APIError and APIResponse.                                     *)
(***************************************************************************)
NowZ   == "now:%Y-%m-%dT%H:%M:%SZ"   \* time.strftime('%Y-%m-%dT%H:%M:%SZ', time.gmtime())
NowIso == "now:isoformat"            \* datetime.utcnow().isoformat()

\* error=None of an APIResponse
NoError == [isNone |-> TRUE, code |-> "None", message |-> "None",
            details |-> "None", timestamp |-> "None"]

\* APIError(code, message, details, timestamp): timestamp or utcnow().isoformat()
APIError(code, message, details, timestamp) ==
    [isNone |-> FALSE, code |-> code, message |-> message, details |-> details,
     timestamp |-> IF timestamp \in {"None", ""} THEN NowIso ELSE timestamp]

\* APIResponse(data, count, limit, offset, has_next, error), every default None
APIResponse(data, count, limit, offset, has_next, error) ==
    [data |-> data, count |-> count, limit |-> limit, offset |-> offset,
     has_next |-> has_next, error |-> error]

NoEnvelope == APIResponse("None", "None", "None", "None", "None", NoError)

\* What a call gives its caller.
NoResult      == [kind |-> "none",     exc |-> "None", env |-> NoEnvelope]
Returned(env) == [kind |-> "envelope", exc |-> "None", env |-> env]
Raised(exc)   == [kind |-> "raise",    exc |-> exc,    env |-> NoEnvelope]

(***************************************************************************)
(* What the server can answer. A body is unparsable ("notjson") or a       *)
(* decoded JSON value; a mapping lists its members, "ABSENT" for a key it  *)
(* does not hold. Its `error` member is itself absent, null, a string, a   *)
(* list, or a mapping of code/message/details/timestamp.                   *)
(***************************************************************************)
NoErrorMember == [kind |-> "ABSENT", code |-> "ABSENT", message |-> "ABSENT",
                  details |-> "ABSENT", timestamp |-> "ABSENT"]

ErrorMembers ==
    { [NoErrorMember EXCEPT !.kind = k] : k \in {"ABSENT", "null", "str", "list"} }
    \cup [kind : {"map"}, code : {"ABSENT", "E42"}, message : {"ABSENT", "not found"},
          details : {"ABSENT", "row 7"}, timestamp : {"ABSENT", "2024-01-01T00:00:00Z"}]

NoBody == [kind |-> "none", data |-> "ABSENT", count |-> "ABSENT", limit |-> "ABSENT",
           offset |-> "ABSENT", has_next |-> "ABSENT", error |-> NoErrorMember]

\* Bodies that are not mappings: unparsable text, null, a string, a list.
PlainBodies == { [NoBody EXCEPT !.kind = k] : k \in {"notjson", "null", "str", "list"} }

\* Mappings a success answer carries.
DataBodies ==
    { [NoBody EXCEPT !.kind = "map", !.data = d, !.count = c, !.limit = l,
                     !.offset = l, !.has_next = h] :
        d \in {"ABSENT", "null", "rows"}, c \in {"ABSENT", "3"},
        l \in {"ABSENT", "10"}, h \in {"ABSENT", "true"} }

\* Mappings an error answer carries.
ErrorBodies == { [NoBody EXCEPT !.kind = "map", !.error = e] : e \in ErrorMembers }

Bodies == PlainBodies \cup DataBodies \cup ErrorBodies

Statuses == {200, 204, 400, 404, 500}

\* response.reason
Reason(status) ==
    CASE status = 200 -> "OK"
      [] status = 204 -> "No Content"
      [] status = 400 -> "Bad Request"
      [] status = 404 -> "Not Found"
      [] status = 500 -> "Internal Server Error"
      [] OTHER -> ""

NoResponse == [kind |-> "none", status |-> 0, body |-> NoBody, desc |-> "None"]

\* The decoded JSON value as the Python object json() returns: null is None.
FromJson(v) == IF v = "null" THEN "None" ELSE v

\* mapping.get(key): None when the key is absent
DictGet(member) == IF member = "ABSENT" THEN "None" ELSE FromJson(member)

\* mapping.get(key, default)
DictGetOr(member, default) == IF member = "ABSENT" THEN default ELSE FromJson(member)

\* The whole decoded body as one Python object.
WholeBody(body) == IF body.kind = "null" THEN "None" ELSE "body:" \o body.kind

(***************************************************************************)
(* client.py 49-74: _handle_error. Returns the APIError, or the exception  *)
(* that leaves it: .get on a decoded body or `error` member that is not a  *)
(* mapping is an AttributeError, which the except clause does not name.    *)
(***************************************************************************)
HandleError(status, body) ==
    IF body.kind = "notjson"
    THEN [exc |-> "None",
          error |-> APIError("http_" \o ToString(status), Reason(status), "None", NowZ)]
    ELSE IF body.kind # "map"
    THEN [exc |-> "AttributeError", error |-> NoError]
    ELSE IF body.error.kind \notin {"ABSENT", "map"}
    THEN [exc |-> "AttributeError", error |-> NoError]
    ELSE LET error_info == body.error
         IN  [exc |-> "None",
              error |-> APIError(DictGetOr(error_info.code, "http_" \o ToString(status)),
                                 DictGetOr(error_info.message, Reason(status)),
                                 DictGet(error_info.details),
                                 DictGet(error_info.timestamp))]

\* The except clause of _request with another error code.
NetworkError_WrongCode(message) ==
    APIResponse("None", "None", "None", "None", "None",
                APIError("http_error", message, "None", NowZ))

\* client.py 135-142: the except clause of _request
NetworkError(message) ==
    APIResponse("None", "None", "None", "None", "None",
                APIError("network_error", message, "None", NowZ))

(***************************************************************************)
(* client.py 115-133: _request once the transport has answered.            *)
(* response.json() on an unparsable body raises JSONDecodeError; in the    *)
(* "modern" build that is a requests.exceptions.RequestException, which    *)
(* the except clause of _request catches, in the "legacy" build it is a    *)
(* plain ValueError, which leaves _request.                                *)
(***************************************************************************)
Classify(bld, status, body) ==
    IF status >= ErrorStatus
    THEN LET he == HandleError(status, body)
         IN  IF he.exc # "None" THEN Raised(he.exc)
             ELSE Returned(APIResponse("None", "None", "None", "None", "None", he.error))
    ELSE IF body.kind = "notjson"
    THEN IF bld = "modern" THEN Returned(NetworkError("Expecting value"))
         ELSE Raised("JSONDecodeError")
    ELSE IF body.kind = "map"
    THEN Returned(APIResponse(DictGet(body.data), DictGet(body.count), DictGet(body.limit),
                              DictGet(body.offset), DictGet(body.has_next), NoError))
    ELSE Returned(APIResponse(WholeBody(body), "None", "None", "None", "None", NoError))

(***************************************************************************)
(* URLs are sequences of tokens: the scheme and host as one token, "/",    *)
(* and path segments.                                                      *)
(***************************************************************************)
\* s.rstrip('/')
RECURSIVE RStrip(_)
RStrip(s) ==
    IF s # << >> /\ s[Len(s)] = "/" THEN RStrip(SubSeq(s, 1, Len(s) - 1)) ELSE s

\* s.lstrip('/')
RECURSIVE LStrip(_)
LStrip(s) == IF s # << >> /\ s[1] = "/" THEN LStrip(Tail(s)) ELSE s

\* The base up to and with its last "/": what a relative reference is resolved against.
RECURSIVE DirName(_)
DirName(base) ==
    IF base = << >> \/ base[Len(base)] = "/" THEN base
    ELSE IF Len(base) = 1 THEN base \o << "/" >>   \* a host with no path: its root
    ELSE DirName(SubSeq(base, 1, Len(base) - 1))

\* urllib.parse.urljoin(base, rel) for a rel that is empty or a relative path
UrlJoin(base, rel) == IF rel = << >> THEN base ELSE DirName(base) \o rel

\* types.py 38: MetaBaseConfig stores url.rstrip('/')
MetaBaseConfig(url, timeout, debug) ==
    [url |-> RStrip(url), timeout |-> timeout, debug |-> debug]

\* The join without the slash appended to the base.
BuildUrl_NoSlash(cfg, endpoint) == UrlJoin(cfg.url, LStrip(endpoint))

\* client.py 97: url = urljoin(self.config.url + '/', endpoint.lstrip('/'))
BuildUrl(cfg, endpoint) == UrlJoin(cfg.url \o << "/" >>, LStrip(endpoint))

(***************************************************************************)
(* The arguments of _request and the request the transport receives.       *)
(* data is the kind of body the caller passed: None, a record, a list of   *)
(* records, a record holding a value json cannot encode (TypeError), a     *)
(* record that contains itself (ValueError: circular reference), a record  *)
(* holding NaN.                                                            *)
(***************************************************************************)
DataKinds == {"None", "record", "records", "unencodable", "circular", "nan"}

NoCall == [method |-> "None", endpoint |-> << >>, data |-> "None",
           params |-> EmptyDict, timeout |-> "None"]

NoWire == [method |-> "None", url |-> << >>, body |-> "None",
           params |-> EmptyDict, timeout |-> "None"]

\* client.py 99-104: the trace printed before sending, or the exception
\* json.dumps(data, indent=2) raises while printing it.
DebugBefore(dbg, c) ==
    IF ~dbg THEN [exc |-> "None", lines |-> << >>]
    ELSE IF c.data = "unencodable" THEN [exc |-> "TypeError", lines |-> << "request" >>]
    ELSE IF c.data = "circular" THEN [exc |-> "ValueError", lines |-> << "request" >>]
    ELSE [exc |-> "None",
          lines |-> << "request" >>
                    \o (IF c.data # "None" THEN << "data" >> ELSE << >>)
                    \o (IF c.params # EmptyDict THEN << "params" >> ELSE << >>)]

\* requests' encoding of json=data while it prepares the request: a TypeError
\* leaves as it is; a ValueError (circular reference, NaN under allow_nan=False)
\* is wrapped in InvalidJSONError, a RequestException, by the "modern" build.
PrepareBody(bld, data) ==
    IF data = "unencodable" THEN "TypeError"
    ELSE IF data = "circular" THEN (IF bld = "modern" THEN "InvalidJSONError" ELSE "ValueError")
    ELSE IF data = "nan" /\ bld = "modern" THEN "InvalidJSONError"
    ELSE "None"

\* client.py 107-113: session.request(method=, url=, json=data, params=, **kwargs).
\* The request's timeout is the timeout keyword alone: requests reads no
\* timeout attribute of the Session.
SessionRequest(cfg, sess, c) ==
    [method |-> c.method, url |-> BuildUrl(cfg, c.endpoint), body |-> c.data,
     params |-> c.params, timeout |-> c.timeout]

\* client.py 97-113 and 135-142: _request up to the moment the transport holds
\* the request, for a client whose debug flag is dbg.
RequestStart(dbg, bld, cfg, sess, c) ==
    LET before == DebugBefore(dbg, c)
        prep   == PrepareBody(bld, c.data)
    IN  IF before.exc # "None"
        THEN [pc |-> "raised", result |-> Raised(before.exc), wire |-> NoWire,
              trace |-> before.lines]
        ELSE IF prep = "InvalidJSONError"
        THEN [pc |-> "returned", result |-> Returned(NetworkError("InvalidJSONError")),
              wire |-> NoWire, trace |-> before.lines]
        ELSE IF prep # "None"
        THEN [pc |-> "raised", result |-> Raised(prep), wire |-> NoWire,
              trace |-> before.lines]
        ELSE [pc |-> "sending", result |-> NoResult, wire |-> SessionRequest(cfg, sess, c),
              trace |-> before.lines]

\* client.py 115-142: _request from the transport's outcome to its return.
RequestEnd(dbg, bld, resp) ==
    IF resp.kind = "response"
    THEN [result |-> Classify(bld, resp.status, resp.body),
          trace |-> IF dbg THEN << "status" >> ELSE << >>]
    ELSE [result |-> Returned(NetworkError(resp.desc)), trace |-> << >>]

(***************************************************************************)
(* The arguments of the public operations, one shape for all of them;      *)
(* an operation reads only the fields it takes.                            *)
(***************************************************************************)
NoArgs == [table |-> "None", id |-> "None", hasOptions |-> FALSE, select |-> << >>,
           conds |-> EmptyDict, order |-> "None", limit |-> "None", offset |-> "None",
           group_by |-> << >>, returning |-> << >>, data |-> "None"]

Tables == {"users"}
Ids == {"7"}
ColumnLists == {<< >>, << "id", "name" >>}
QueryColumns == {"age", "limit"}         \* columns query's where mapping may name
KeywordColumns == {"age", "returning"}   \* columns update/delete keywords may name

\* The where mappings over cols with at most MaxWhere filters.
Wheres(cols) ==
    UNION { [S -> FilterValues] : S \in {T \in SUBSET cols : Cardinality(T) <= MaxWhere} }

\* QueryOptions(select, where, order, limit, offset, group_by)
QueryOptionsInputs ==
    { [NoArgs EXCEPT !.hasOptions = TRUE, !.select = s, !.conds = w, !.order = o,
                     !.limit = l, !.offset = f, !.group_by = g] :
        s \in ColumnLists, w \in Wheres(QueryColumns), o \in {"None", "name.asc"},
        l \in {"None", "0", "10"}, f \in {"None", "5"}, g \in {<< >>, << "city" >>} }

\* InsertOptions(returning) / UpdateOptions(returning), or no options object
WriteOptionsInputs ==
    {NoArgs} \cup { [NoArgs EXCEPT !.hasOptions = TRUE, !.returning = r] : r \in ColumnLists }

\* client.py 186-189, 270-274, 326-330: one filter value as a query parameter
FilterParam(value) == IF IsDictOrList(value) THEN JsonDumps(value) ELSE PyStr(value)

\* client.py 185-189, 270-274, 326-330: the loop that stores every filter in params
WhereParams(params, conds) ==
    [k \in DOMAIN params \cup DOMAIN conds |->
        IF k \in DOMAIN conds THEN FilterParam(conds[k]) ELSE params[k]]

\* client.py 243-244 and its copies: if options and options.returning
ReturningParams(params, a) ==
    IF a.hasOptions /\ a.returning # << >>
    THEN DictSet(params, "returning", CommaJoin(a.returning))
    ELSE params

\* client.py 179-198: the params of query
QueryParams(a) ==
    LET p1 == IF a.select # << >> THEN DictSet(EmptyDict, "select", CommaJoin(a.select))
              ELSE EmptyDict
        p2 == IF a.conds # EmptyDict THEN WhereParams(p1, a.conds) ELSE p1
        p3 == IF Truthy(a.order) THEN DictSet(p2, "order", a.order) ELSE p2
        p4 == IF Truthy(a.limit) THEN DictSet(p3, "limit", a.limit) ELSE p3
        p5 == IF Truthy(a.offset) THEN DictSet(p4, "offset", a.offset) ELSE p4
    IN  IF a.hasOptions THEN p5 ELSE EmptyDict

CollectionPath(table) == << "/", "rest", "/", "v1", "/", table >>
RecordPath(table, id) == << "/", "rest", "/", "v1", "/", table, "/", id >>

\* What each public operation passes to _request.
HealthCall == [NoCall EXCEPT !.method = "GET", !.endpoint = << "/", "rest", "/", "health" >>]
PingCall == [NoCall EXCEPT !.method = "GET", !.endpoint = << "/", "ping" >>]
QueryCall(a) ==
    [NoCall EXCEPT !.method = "GET", !.endpoint = CollectionPath(a.table),
                   !.params = QueryParams(a)]
GetCall(a) ==
    [NoCall EXCEPT !.method = "GET", !.endpoint = RecordPath(a.table, a.id),
                   !.params = IF a.select # << >>
                              THEN DictSet(EmptyDict, "select", CommaJoin(a.select))
                              ELSE EmptyDict]
InsertCall(a) ==
    [NoCall EXCEPT !.method = "POST", !.endpoint = CollectionPath(a.table),
                   !.data = a.data, !.params = ReturningParams(EmptyDict, a)]
UpdateCall(a) ==
    [NoCall EXCEPT !.method = "PATCH", !.endpoint = CollectionPath(a.table),
                   !.data = a.data,
                   !.params = ReturningParams(WhereParams(EmptyDict, a.conds), a)]
UpdateOneCall(a) ==
    [NoCall EXCEPT !.method = "PATCH", !.endpoint = RecordPath(a.table, a.id),
                   !.data = a.data, !.params = ReturningParams(EmptyDict, a)]
DeleteCall(a) ==
    [NoCall EXCEPT !.method = "DELETE", !.endpoint = CollectionPath(a.table),
                   !.params = ReturningParams(WhereParams(EmptyDict, a.conds), a)]
DeleteOneCall(a) ==
    [NoCall EXCEPT !.method = "DELETE", !.endpoint = RecordPath(a.table, a.id),
                   !.params = ReturningParams(EmptyDict, a)]
ListTablesCall == [NoCall EXCEPT !.method = "GET", !.endpoint = << "/", "rest", "/", "v1" >>]
GetTableSchemaCall(a) ==
    [NoCall EXCEPT !.method = "GET",
                   !.endpoint = CollectionPath(a.table) \o << "/", "schema" >>]

(***************************************************************************)
(* State machine.                                                          *)
(***************************************************************************)
BaseUrls == { << "http://h" >>, << "http://h", "/" >>,
              << "http://h", "/", "api" >>, << "http://h", "/", "api", "/" >> }

NoTwin == [pc |-> "idle", result |-> NoResult, wire |-> NoWire]

\* client.py 37-47: MetaBaseClient(config)
Init ==
    /\ urlArg \in BaseUrls
    /\ config \in { MetaBaseConfig(urlArg, DefaultTimeout, d) : d \in BOOLEAN }
    /\ build \in {"legacy", "modern"}
    /\ session = [timeout |-> config.timeout \div MsPerSecond, closed |-> FALSE]
    /\ scope = "outside"
    /\ pc = "idle"
    /\ op = "none"
    /\ args = NoArgs
    /\ call = NoCall
    /\ wire = NoWire
    /\ sent = 0
    /\ sentClosed = FALSE
    /\ response = NoResponse
    /\ result = NoResult
    /\ trace = << >>
    /\ timer = "None"
    /\ twin = NoTwin

\* An operation named o, given a, enters _request with c: client.py 97-113.
Invoke(o, a, c) ==
    /\ LET st == RequestStart(config.debug, build, config, session, c)
           tw == RequestStart(~config.debug, build, config, session, c)
       IN  /\ pc' = st.pc
           /\ result' = st.result
           /\ wire' = st.wire
           /\ trace' = st.trace
           /\ sent' = 0
           /\ twin' = [pc |-> tw.pc, result |-> tw.result, wire |-> tw.wire]
    /\ op' = o
    /\ args' = a
    /\ call' = c
    /\ response' = NoResponse
    /\ timer' = "None"
    /\ UNCHANGED << urlArg, config, build, session, scope, sentClosed >>

\* client.py 145-152
Health ==
    /\ pc = "idle"
    /\ Invoke("health", NoArgs, HealthCall)

\* client.py 154-161
Ping ==
    /\ pc = "idle"
    /\ Invoke("ping", NoArgs, PingCall)

\* client.py 164-200
Query ==
    /\ pc = "idle"
    /\ \E t \in Tables, o \in {NoArgs} \cup QueryOptionsInputs :
        LET a == [o EXCEPT !.table = t] IN Invoke("query", a, QueryCall(a))

\* client.py 202-223
Get ==
    /\ pc = "idle"
    /\ \E t \in Tables, i \in Ids, s \in ColumnLists :
        LET a == [NoArgs EXCEPT !.table = t, !.id = i, !.select = s]
        IN  Invoke("get", a, GetCall(a))

\* client.py 225-246
Insert ==
    /\ pc = "idle"
    /\ \E t \in Tables, d \in DataKinds \ {"None"}, o \in WriteOptionsInputs :
        LET a == [o EXCEPT !.table = t, !.data = d] IN Invoke("insert", a, InsertCall(a))

\* client.py 248-279
Update ==
    /\ pc = "idle"
    /\ \E t \in Tables, d \in DataKinds \ {"None", "records"}, o \in WriteOptionsInputs,
       w \in Wheres(KeywordColumns) :
        LET a == [o EXCEPT !.table = t, !.data = d, !.conds = w]
        IN  Invoke("update", a, UpdateCall(a))

\* client.py 281-304
UpdateOne ==
    /\ pc = "idle"
    /\ \E t \in Tables, i \in Ids, d \in DataKinds \ {"None", "records"},
       o \in WriteOptionsInputs :
        LET a == [o EXCEPT !.table = t, !.id = i, !.data = d]
        IN  Invoke("update_one", a, UpdateOneCall(a))

\* client.py 306-335
Delete ==
    /\ pc = "idle"
    /\ \E t \in Tables, o \in WriteOptionsInputs, w \in Wheres(KeywordColumns) :
        LET a == [o EXCEPT !.table = t, !.conds = w] IN Invoke("delete", a, DeleteCall(a))

\* client.py 337-358
DeleteOne ==
    /\ pc = "idle"
    /\ \E t \in Tables, i \in Ids, o \in WriteOptionsInputs :
        LET a == [o EXCEPT !.table = t, !.id = i]
        IN  Invoke("delete_one", a, DeleteOneCall(a))

\* client.py 361-368
ListTables ==
    /\ pc = "idle"
    /\ Invoke("list_tables", NoArgs, ListTablesCall)

\* client.py 370-380
GetTableSchema ==
    /\ pc = "idle"
    /\ \E t \in Tables :
        LET a == [NoArgs EXCEPT !.table = t]
        IN  Invoke("get_table_schema", a, GetTableSchemaCall(a))

\* client.py 76-113: _request called directly (as the managers built on the client
\* do), with an endpoint with or without its leading slash and any **kwargs.
Request ==
    /\ pc = "idle"
    /\ \E e \in { << "/", "ping" >>, << "ping" >> }, k \in {"None", "5"} :
        Invoke("_request", NoArgs, [NoCall EXCEPT !.method = "GET", !.endpoint = e,
                                                  !.timeout = k])

\* client.py 107-113: the transport takes the request session.request prepared, one
\* attempt, and the call waits for its outcome. A session that close() has closed
\* sends like an open one.
Transmit ==
    /\ pc = "sending"
    /\ pc' = "waiting"
    /\ sent' = sent + 1
    /\ sentClosed' = (sentClosed \/ session.closed)
    /\ timer' = wire.timeout
    /\ args' = NoArgs
    /\ call' = NoCall
    /\ wire' = NoWire
    /\ twin' = IF twin.pc = "sending" THEN [twin EXCEPT !.pc = "waiting", !.wire = NoWire]
               ELSE twin
    /\ UNCHANGED << urlArg, config, build, session, scope, op, response, result, trace >>

\* client.py 119-142: every path ends _request: it returns its envelope or the
\* exception leaves it; no path sends again.
AfterRequest(res) == IF res.kind = "raise" THEN "raised" ELSE "returned"

\* client.py 115-142: the outcome resp of the transport reaches _request.
Finish(resp) ==
    LET end == RequestEnd(config.debug, build, resp)
        tw  == RequestEnd(~config.debug, build, resp)
    IN  /\ response' = resp
        /\ result' = end.result
        /\ pc' = AfterRequest(end.result)
        /\ trace' = trace \o end.trace
        /\ timer' = "None"
        /\ twin' = IF twin.pc = "waiting"
                   THEN [twin EXCEPT !.result = tw.result, !.pc = AfterRequest(tw.result)]
                   ELSE twin
        /\ UNCHANGED << urlArg, config, build, session, scope, op, args, call, wire, sent,
                        sentClosed >>

\* The server answers with any status and any body.
Deliver ==
    /\ pc = "waiting"
    /\ \E status \in Statuses, body \in Bodies :
        Finish([kind |-> "response", status |-> status, body |-> body, desc |-> "None"])

\* The transport fails before a response exists (connection refused, DNS, reset).
TransportFail ==
    /\ pc = "waiting"
    /\ Finish([NoResponse EXCEPT !.kind = "failure", !.desc = "Connection refused"])

\* The timeout armed for the request expires: requests raises Timeout.
Timeout ==
    /\ pc = "waiting"
    /\ timer # "None"
    /\ Finish([NoResponse EXCEPT !.kind = "timeout", !.desc = "Read timed out"])

\* The caller takes the envelope or the exception; the client is idle again.
Return ==
    /\ pc \in {"returned", "raised"}
    /\ pc' = "idle"
    /\ op' = "none"
    /\ args' = NoArgs
    /\ call' = NoCall
    /\ wire' = NoWire
    /\ sent' = 0
    /\ response' = NoResponse
    /\ result' = NoResult
    /\ trace' = << >>
    /\ timer' = "None"
    /\ twin' = NoTwin
    /\ UNCHANGED << urlArg, config, build, session, scope, sentClosed >>

\* client.py 383-385: close() closes the requests session, which stays usable:
\* Session.close() closes the adapters' pools and the next request reopens them.
Close ==
    /\ pc = "idle"
    /\ session' = [session EXCEPT !.closed = TRUE]
    /\ UNCHANGED << urlArg, config, build, scope, pc, op, args, call, wire, sent, sentClosed,
                    response, result, trace, timer, twin >>

\* client.py 387-389: __enter__
Enter ==
    /\ pc = "idle"
    /\ scope = "outside"
    /\ scope' = "inside"
    /\ UNCHANGED << urlArg, config, build, session, pc, op, args, call, wire, sent, sentClosed,
                    response, result, trace, timer, twin >>

\* client.py 391-393: __exit__ calls close()
Exit ==
    /\ pc = "idle"
    /\ scope = "inside"
    /\ scope' = "outside"
    /\ session' = [session EXCEPT !.closed = TRUE]
    /\ UNCHANGED << urlArg, config, build, pc, op, args, call, wire, sent, sentClosed,
                    response, result, trace, timer, twin >>

Next ==
    \/ Health \/ Ping \/ Query \/ Get \/ Insert \/ Update \/ UpdateOne \/ Delete
    \/ DeleteOne \/ ListTables \/ GetTableSchema \/ Request
    \/ Transmit \/ Deliver \/ TransportFail \/ Timeout \/ Return
    \/ Close \/ Enter \/ Exit

Spec == Init /\ [][Next]_vars

\* Time passes: an armed timeout expires unless the call has ended before.
LiveSpec == Spec /\ WF_vars(Timeout)

(***************************************************************************)
(* Properties.                                                             *)
(***************************************************************************)
PublicOps == {"health", "ping", "query", "get", "insert", "update", "update_one",
              "delete", "delete_one", "list_tables", "get_table_schema"}

Done == pc \in {"returned", "raised"}

Answered == Done /\ response.kind = "response"

DataSet(env) == env.data # "None"
ErrorSet(env) == ~env.error.isNone
NoPagination(env) ==
    env.count = "None" /\ env.limit = "None" /\ env.offset = "None" /\ env.has_next = "None"

\* C1: every envelope _request returns has exactly one of data and error
\* populated, never both and never neither.
C1_ExactlyOneOfDataAndError ==
    result.kind = "envelope" => (DataSet(result.env) # ErrorSet(result.env))

\* The failure modes C2 names: a transport exception; status >= 400 with a body
\* that is not JSON, not a mapping, or whose error member is not a mapping;
\* status < 400 with a body that is not JSON.
ExpectedFailure(resp) ==
    \/ resp.kind \in {"failure", "timeout"}
    \/ /\ resp.kind = "response"
       /\ resp.status >= ErrorStatus
       /\ \/ resp.body.kind # "map"
          \/ resp.body.error.kind \in {"null", "str", "list"}
    \/ /\ resp.kind = "response"
       /\ resp.status < ErrorStatus
       /\ resp.body.kind = "notjson"

\* C2: on an open client, a call that meets an expected failure mode returns an
\* error envelope; no exception leaves _request.
C2_ExpectedFailuresReturnEnvelopes ==
    (Done /\ ~session.closed /\ ExpectedFailure(response))
        => (result.kind = "envelope" /\ ErrorSet(result.env))

\* C3: for status < 400 and a decoded JSON body B, a mapping with a data key gives
\* data = B.data and exactly B's pagination members; any other B (a mapping with no
\* data key, a list, a scalar) gives data = the whole of B and no pagination;
\* error is absent in both cases.
C3_SuccessEnvelope ==
    (Answered /\ response.status < ErrorStatus /\ response.body.kind # "notjson")
        => LET B == response.body
               env == result.env
           IN  /\ result.kind = "envelope"
               /\ ~ErrorSet(env)
               /\ IF B.kind = "map" /\ B.data # "ABSENT"
                  THEN /\ env.data = FromJson(B.data)
                       /\ env.count = DictGet(B.count)
                       /\ env.limit = DictGet(B.limit)
                       /\ env.offset = DictGet(B.offset)
                       /\ env.has_next = DictGet(B.has_next)
                  ELSE /\ env.data = (IF B.kind = "map" THEN "body:map" ELSE WholeBody(B))
                       /\ NoPagination(env)

\* The member f of the body's error object, or "ABSENT" when the body is not
\* JSON, holds no error object or the object lacks f.
ErrorField(body, f) ==
    IF body.kind = "map" /\ body.error.kind = "map" THEN body.error[f] ELSE "ABSENT"

\* C4: for status S >= 400, _request returns an error envelope with data unset
\* whose code, message, details and timestamp are those of the body's error
\* object where present, and otherwise http_<S>, the reason phrase, absent and
\* the current time.
C4_ErrorEnvelope ==
    (Answered /\ response.status >= ErrorStatus)
        => LET B == response.body
               S == response.status
               e == result.env.error
           IN  /\ result.kind = "envelope"
               /\ ~DataSet(result.env) /\ NoPagination(result.env)
               /\ ErrorSet(result.env)
               /\ e.code = (IF ErrorField(B, "code") # "ABSENT" THEN ErrorField(B, "code")
                            ELSE "http_" \o ToString(S))
               /\ e.message = (IF ErrorField(B, "message") # "ABSENT"
                               THEN ErrorField(B, "message") ELSE Reason(S))
               /\ e.details = (IF ErrorField(B, "details") # "ABSENT"
                               THEN ErrorField(B, "details") ELSE "None")
               /\ IF ErrorField(B, "timestamp") # "ABSENT"
                  THEN e.timestamp = ErrorField(B, "timestamp")
                  ELSE e.timestamp \in {NowZ, NowIso}

\* C5: when the transport fails before a response exists, a public operation has
\* made exactly one transport attempt and returns an envelope whose error code is
\* network_error, whose message is the failure's description, and whose data and
\* pagination fields are unset.
C5_TransportFailure ==
    (Done /\ op \in PublicOps /\ response.kind \in {"failure", "timeout"})
        => /\ sent = 1
           /\ pc = "returned"
           /\ result.kind = "envelope"
           /\ result.env.error.code = "network_error"
           /\ result.env.error.message = response.desc
           /\ ~DataSet(result.env) /\ NoPagination(result.env)

\* A public operation whose transport attempt failed has returned its envelope.
C5_Witness ==
    /\ pc = "returned"
    /\ op = "delete_one"
    /\ response.kind = "failure"
    /\ sent = 1
    /\ result.env.error.code = "network_error"

\* C6: once close() or __exit__ has released the session, every later operation
\* fails as a hard error and no request reaches the transport.
C6_NoUseAfterRelease ==
    session.closed => /\ pc \in {"idle", "raised"}
                      /\ sent = 0
                      /\ ~sentClosed

\* C7: debug mode is a pure side effect: the client and its twin, which differ
\* only in config.debug, hand the same request to the transport and end the same
\* call the same way, with the same envelope or the same exception.
C7_DebugChangesNothing ==
    /\ twin.pc = pc
    /\ twin.wire = wire
    /\ twin.result = result

\* C8: a call whose request is with the transport ends: no call waits
\* indefinitely on a server that never responds.
C8_WaitingCallEnds == (pc = "waiting") ~> Done

\* The query parameters C9 expects of query(table, options).
QueryKeysExpected(a) ==
    (IF a.select # << >> THEN {"select"} ELSE {})
    \cup DOMAIN a.conds
    \cup (IF a.order # "None" THEN {"order"} ELSE {})
    \cup (IF a.limit # "None" THEN {"limit"} ELSE {})
    \cup (IF a.offset # "None" THEN {"offset"} ELSE {})

\* A filter value as the serialization rule of C10 sends it: a scalar as its
\* string form, a mapping or a sequence as its JSON text.
FilterExpected(value) ==
    IF value.t \in {"dict", "list", "tuple"} THEN value.js ELSE value.py

\* C9: query(table, options) issues GET /rest/v1/<table> whose query parameters
\* are exactly select (comma-joined, when non-empty), one per where entry keyed by
\* its column, order when given, and limit and offset whenever they are given as
\* integers; no supplied option is dropped or replaced by another.
C9_QueryParameters ==
    (pc = "sending" /\ op = "query")
        => LET a == args
               p == wire.params
           IN  /\ wire.method = "GET"
               /\ wire.url = config.url \o CollectionPath(a.table)
               /\ DOMAIN p = (IF a.hasOptions THEN QueryKeysExpected(a) ELSE {})
               /\ a.hasOptions =>
                   /\ \A k \in DOMAIN a.conds \ {"select", "order", "limit", "offset"} :
                        p[k] \in {a.conds[k].py, a.conds[k].js}
                   /\ a.select # << >> => p["select"] = CommaJoin(a.select)
                   /\ a.order # "None" => p["order"] = a.order
                   /\ a.limit # "None" => p["limit"] = a.limit
                   /\ a.offset # "None" => p["offset"] = a.offset
                   /\ \A k \in DOMAIN a.conds \cap {"select", "order", "limit", "offset"} :
                        FALSE

\* C10: every filter of query's where mapping and of the keyword where-conditions
\* of update and delete appears in the request's query parameters under its column,
\* a scalar as its string form and a mapping or sequence as its JSON text.
C10_FilterSerialization ==
    (pc = "sending" /\ op \in {"query", "update", "delete"})
        => \A k \in DOMAIN args.conds :
              /\ k \in DOMAIN wire.params
              /\ wire.params[k] = FilterExpected(args.conds[k])

WriteOps == {"insert", "update", "update_one", "delete", "delete_one"}

\* C11: each non-empty select, returning and groupBy sequence of an options object
\* is sent as one query parameter whose value is its elements joined by commas, in
\* order; a query with a non-empty groupBy carries it in the request.
C11_SequencesCommaJoined ==
    (pc = "sending" /\ args.hasOptions)
        => LET p == wire.params
           IN  /\ (op = "query" /\ args.select # << >>)
                    => ("select" \in DOMAIN p /\ p["select"] = CommaJoin(args.select))
               /\ (op \in WriteOps /\ args.returning # << >>)
                    => ("returning" \in DOMAIN p
                        /\ p["returning"] = CommaJoin(args.returning))
               /\ (op = "query" /\ args.group_by # << >>)
                    => \E k \in DOMAIN p : p[k] = CommaJoin(args.group_by)

\* C12: for insert, update, update_one, delete and delete_one the request carries
\* a returning query parameter if and only if an options object with a non-empty
\* returning list was passed, and for insert, update and update_one the request
\* body is the caller's record (or sequence of records) unchanged.
C12_ReturningOnlyFromOptions ==
    (pc = "sending" /\ op \in WriteOps)
        => /\ ("returning" \in DOMAIN wire.params)
                <=> (args.hasOptions /\ args.returning # << >>)
           /\ op \in {"insert", "update", "update_one"} => wire.body = args.data

\* A base URL without its trailing slash, an endpoint without its leading slash.
DropTrailingSlash(u) ==
    IF u # << >> /\ u[Len(u)] = "/" THEN SubSeq(u, 1, Len(u) - 1) ELSE u
DropLeadingSlash(e) == IF e # << >> /\ e[1] = "/" THEN Tail(e) ELSE e

\* C13: URL building is canonical: for a base URL given with or without a trailing
\* slash and an endpoint given with or without a leading slash, the request's URL
\* is the base URL (its own path kept), exactly one separating slash, then the
\* endpoint, so the four combinations give the same URL.
C13_CanonicalUrl ==
    pc = "sending"
        => wire.url = DropTrailingSlash(urlArg) \o << "/" >> \o DropLeadingSlash(call.endpoint)

\* A base given with a path and a trailing slash meets an endpoint given without
\* its leading slash.
C13_Witness ==
    /\ pc = "sending"
    /\ op = "_request"
    /\ urlArg = << "http://h", "/", "api", "/" >>
    /\ call.endpoint = << "ping" >>
    /\ wire.url = << "http://h", "/", "api", "/", "ping" >>

====
